---- MODULE Spec2Model ----
(***************************************************************************)
(* Model of the retrieval core of sssearch:                                *)
(*   services/embedding_service.py  EmbeddingService                       *)
(*   services/search_service.py     SearchService                          *)
(*   app.py                         process_screenshots (the batch loop)   *)
(*                                                                         *)
(* Texts are sequences of words.  The sentence-transformer is an external  *)
(* deterministic function from text to a vector; it is modelled by         *)
(* ModelEncode (sum of fixed word vectors).  A cosine similarity c is      *)
(* represented exactly by the signed square sgn(c)*c^2 as a reduced        *)
(* fraction, which orders and identifies scores exactly as c does; the     *)
(* float NaN produced by a division 0/0 is the distinguished value NaN.    *)
(***************************************************************************)
EXTENDS Integers, Sequences, FiniteSets, TLC

\* ---------------------------------------------------------------- bounds
MaxStore == 3      \* records held by a store
MaxBatch == 3      \* files in one upload batch
MaxTopK == 4       \* largest top_k asked for
NumCallers == 3    \* threads sharing one EmbeddingService
NumIngesters == 2  \* threads calling store_screenshot while a search runs
MaxDocs == 2       \* rows of the document matrix given to calculate_similarity

\* ------------------------------------------------------------- arithmetic
Min(a, b) == IF a <= b THEN a ELSE b

Sign(n) == IF n < 0 THEN -1 ELSE IF n = 0 THEN 0 ELSE 1

RECURSIVE GCD(_, _)
GCD(a, b) == IF b = 0 THEN a ELSE GCD(b, a % b)

RECURSIVE SumTo(_, _)
SumTo(f, n) == IF n = 0 THEN 0 ELSE f[n] + SumTo(f, n - 1)

\* np.dot of two vectors of the same length
Dot(a, b) == SumTo([k \in 1..Len(a) |-> a[k] * b[k]], Len(a))

\* np.linalg.norm(v) squared
Norm2(v) == Dot(v, v)

Reverse(s) == [i \in 1..Len(s) |-> s[Len(s) + 1 - i]]

Take(s, k) == SubSeq(s, 1, Min(k, Len(s)))

IsPrefix(s, t) == Len(s) <= Len(t) /\ SubSeq(t, 1, Len(s)) = s

Perms(n) == {p \in [1..n -> 1..n] : \A i, j \in 1..n : i # j => p[i] # p[j]}

\* the permutations of every length a store can have, computed once
PermsUpTo == [n \in 0..(MaxStore + 1) |-> Perms(n)]

\* ------------------------------------------------------------ scores
NaN == [nan |-> TRUE, sgn |-> 0, p |-> 0, q |-> 1]

\* one entry of np.dot(doc_norms, query_norm): d/|d| . q/|q|; a zero norm
\* divides 0/0 and every product with the resulting NaN is NaN
Cosine(q, d) ==
    IF Norm2(q) = 0 \/ Norm2(d) = 0 THEN NaN
    ELSE LET n == Dot(d, q)
             num == n * n
             den == Norm2(q) * Norm2(d)
             g == GCD(den, num)
         IN [nan |-> FALSE, sgn |-> Sign(n), p |-> num \div g, q |-> den \div g]

\* s < t as floats; false whenever a NaN is involved
ScoreLT(s, t) == ~s.nan /\ ~t.nan /\ s.sgn * s.p * t.q < t.sgn * t.p * s.q

\* the order np.sort / np.argsort use: NaN is placed after every number
SortsBefore(s, t) == (~s.nan /\ t.nan) \/ ScoreLT(s, t)

\* np.argsort(a): an index permutation putting a in ascending order.  The
\* default kind is an unstable quicksort, so the order among equal elements
\* is any.
Argsort(a) ==
    {p \in IF Len(a) <= MaxStore + 1 THEN PermsUpTo[Len(a)] ELSE Perms(Len(a)) :
        \A i, j \in 1..Len(a) : i < j => ~SortsBefore(a[p[j]], a[p[i]])}

\* ------------------------------------------------------ embedding service
\* the vector the loaded model gives one word
WordVec(w) ==
    CASE w = "login" -> <<1, 0>>
      [] w = "button" -> <<0, 1>>
      [] OTHER -> <<0, 0>>

RECURSIVE SumVec(_)
SumVec(text) ==
    IF text = <<>> THEN <<0, 0>>
    ELSE LET h == WordVec(Head(text))
             t == SumVec(Tail(text))
         IN <<h[1] + t[1], h[2] + t[2]>>

\* self.model.encode(text): a fixed-dimension, non-zero vector for every
\* text, the empty text included
ModelEncode(text) ==
    LET v == SumVec(text) IN IF v = <<0, 0>> THEN <<1, 1>> ELSE v

\* encode_text called by one thread (its steps under concurrent callers are
\* the actions of SpecLoad).  poison = "embed" makes the embedding raise:
\* SentenceTransformer(...) when the model is not loaded yet,
\* self.model.encode(...) otherwise; encode_text raises it again.
EncodeText(text, poison, mdl) ==
    IF poison = "embed"
    THEN [exc |-> TRUE, val |-> <<>>, model |-> mdl]
    ELSE [exc |-> FALSE, val |-> <<ModelEncode(text)>>, model |-> "loaded"]

EncodeQuery(query, poison, mdl) ==
    LET r == EncodeText(query, poison, mdl)
    IN IF r.exc THEN r ELSE [r EXCEPT !.val = r.val[1]]

\* calculate_similarity: np.linalg.norm(..., axis=1) of an array without rows
\* and np.dot of mismatching shapes raise, and the except clause returns
\* np.array([]); divisions by a zero norm do not raise
CalculateSimilarity(query_embedding, document_embeddings) ==
    IF document_embeddings = <<>> THEN <<>>
    ELSE IF Len(document_embeddings[1]) # Len(query_embedding) THEN <<>>
    ELSE [i \in 1..Len(document_embeddings) |->
             Cosine(query_embedding, document_embeddings[i])]

\* ---------------------------------------------------------- the records
Document(filename, image_data, ocr_text, visual_description, combined_text, embedding) ==
    [filename |-> filename, image_data |-> image_data, ocr_text |-> ocr_text,
     visual_description |-> visual_description,
     combined_text |-> combined_text, embedding |-> embedding, _id |-> 0]

\* the wrong key popped: combined_text instead of embedding
ResultOfPopsText(doc, score) ==
    [filename |-> doc.filename, image_data |-> doc.image_data,
     ocr_text |-> doc.ocr_text, visual_description |-> doc.visual_description,
     combined_text |-> <<>>, score |-> score]

\* doc.copy(); doc['score'] = ...; doc.pop('embedding').  Neither a local
\* document nor a document fetched with the projection {'_id': 0} has _id.
ResultOf(doc, score) ==
    [filename |-> doc.filename, image_data |-> doc.image_data,
     ocr_text |-> doc.ocr_text, visual_description |-> doc.visual_description,
     combined_text |-> doc.combined_text, score |-> score]

\* the slice [:top_k] left out
TopIndicesAll(perm, top_k) == Reverse(perm)

\* np.argsort(similarities)[::-1][:top_k], for one outcome perm of the argsort
TopIndices(perm, top_k) == Take(Reverse(perm), top_k)

\* lines 107-108 / 136-137: the scores of the fetched documents
Similarities(documents, query_embedding) ==
    CalculateSimilarity(query_embedding,
                        [i \in 1..Len(documents) |-> documents[i].embedding])

\* lines 113-121 / 142-150: the results for the chosen indices
RankDocuments(documents, query_embedding, top_indices) ==
    LET similarities == Similarities(documents, query_embedding)
    IN [top_indices |-> top_indices,
        results |-> [i \in 1..Len(top_indices) |->
                        ResultOf(documents[top_indices[i]],
                                 similarities[top_indices[i]])]]


\* ------------------------------------------------------------- the state
VARIABLES
    phase,              \* "new" before SearchService.__init__ ran, then "ready"
    conn,               \* what the connection attempt met (recorded)
    use_local_storage,  \* "unset", "True" or "False"
    local_data,         \* the in-process list
    collection,         \* the documents of the MongoDB collection
    model,              \* EmbeddingService.model: "None" or "loaded"
    ret,                \* the last call of search / get_total_screenshots
    pcBatch,            \* process_screenshots: "idle", "loop" or "done"
    nfiles,             \* len(uploaded_files) of the running batch
    batch,              \* the uploaded files the loop has gone through, in order
    bi,                 \* the loop's position in uploaded_files
    batchBase,          \* the store when the batch started (recorded)
    returned,           \* files for which store_screenshot returned (recorded)
    succeeded,          \* files whose store_screenshot did not fail, in the
                        \* order of the calls (recorded)
    pc,                 \* concurrent callers of encode_text: their positions
    loadCount,          \* times SentenceTransformer(...) was constructed and
                        \* assigned to self.model
    sim,                \* one application of calculate_similarity and ranking
    srch,               \* a thread in _search_local: its position and locals
    ing                 \* threads in store_screenshot: position and document

vars == <<phase, conn, use_local_storage, local_data, collection, model, ret,
          pcBatch, nfiles, batch, bi, batchBase, returned, succeeded, pc, loadCount,
          sim, srch, ing>>

serviceVars == <<phase, conn, use_local_storage, local_data, collection,
                 model, ret, pcBatch, nfiles, batch, bi, batchBase, returned,
                 succeeded>>

\* ------------------------------------------------------------ the inputs
Files ==
    {[filename |-> "a.png", image_data |-> "A", ocr_text |-> <<"login">>,
      visual_description |-> <<"error">>],
     [filename |-> "b.png", image_data |-> "B", ocr_text |-> <<"blue">>,
      visual_description |-> <<"button">>],
     [filename |-> "c.png", image_data |-> "C", ocr_text |-> <<"login">>,
      visual_description |-> <<"button">>]}

\* what is made to fail while a file is processed: nothing, the image / OCR /
\* vision step, the embedding, or the write to the store (insert_one; appending
\* to the in-process list cannot fail)
FilePoisons == {"none", "pre", "embed", "store"}

Uploads == [file : Files, poison : FilePoisons]

\* the first query scores c.png above a.png above b.png, the second scores
\* a.png and b.png equal, below c.png
Queries == {<<"login", "login", "button">>, <<"login", "button">>}

SearchPoisons == {"none", "embed", "read"}

ConnOutcomes == {"no_uri", "client_raises", "server_unreachable", "connected"}

NoRet ==
    [op |-> "none", query |-> <<>>, top_k |-> 0, poison |-> "none",
     top_indices |-> <<>>, results |-> <<>>, value |-> 0, raised |-> FALSE,
     embed_calls |-> 0]

\* the store the service works on
Store == IF use_local_storage = "True" THEN local_data ELSE collection

\* --------------------------------------------------------- construction
\* _connect_to_mongodb without its except clause: when MongoClient(uri)
\* raises, the constructor raises and use_local_storage is never assigned
ConnectToMongodbNoExcept(outcome) ==
    CASE outcome = "no_uri" -> "True"
      [] outcome = "client_raises" -> "unset"
      [] outcome = "server_unreachable" -> "False"
      [] outcome = "connected" -> "False"

\* _connect_to_mongodb with _ensure_vector_index: the value use_local_storage
\* gets.  MongoClient(uri) raises for a URI it cannot parse or resolve and
\* does not contact the server; list_indexes() is the first call that does,
\* and _ensure_vector_index catches what it raises.
ConnectToMongodb(outcome) ==
    CASE outcome = "no_uri" -> "True"
      [] outcome = "client_raises" -> "True"
      [] outcome = "server_unreachable" -> "False"
      [] outcome = "connected" -> "False"

Construct(outcome) ==
    /\ phase = "new"
    /\ phase' = "ready"
    /\ conn' = outcome
    /\ use_local_storage' = ConnectToMongodb(outcome)
    /\ local_data' = <<>>
    /\ UNCHANGED <<collection, model, ret, pcBatch, nfiles, batch, bi, batchBase,
                   returned, succeeded, pc, loadCount, sim,
                   srch, ing>>

\* ---------------------------------------------------------------- ingest
\* app.py line 288: combined_text = f"{ocr_text} {visual_description}"
CombinedText(file) == file.ocr_text \o <<" ">> \o file.visual_description

\* the list replaced instead of appended to
LocalOverwrite(data, document) == <<document>>

\* the document put at the front of the list, moving the others up by one
LocalPrepend(data, document) == <<document>> \o data

\* list.append(document)
LocalAppend(data, document) == Append(data, document)

\* collection.insert_one(document): the driver gives the document a fresh _id
InsertOne(coll, document) ==
    Append(coll, [document EXCEPT !._id = Len(coll) + 1])

\* store_screenshot: every exception is caught at line 83, so the call always
\* returns; failed tells whether the except clause ran
StoreScreenshot(filename, image_data, ocr_text, visual_description, combined_text, poison) ==
    LET e == EncodeText(combined_text, poison, model)
        document == Document(filename, image_data, ocr_text,
                             visual_description, combined_text, e.val[1])
        same == [local_data |-> local_data, collection |-> collection,
                 model |-> e.model, failed |-> TRUE, raised |-> FALSE]
    IN IF e.exc THEN same
       ELSE IF use_local_storage = "True"
       THEN [same EXCEPT !.local_data = LocalAppend(local_data, document),
                         !.failed = FALSE]
       ELSE IF poison = "store" THEN same
       ELSE [same EXCEPT !.collection = InsertOne(collection, document),
                         !.failed = FALSE]

\* one pass of the for loop of process_screenshots (lines 263-303) over one
\* uploaded file: a failure before the call of store_screenshot (Image.open,
\* OCR, vision) or one raised by it is caught at line 302
ProcessFile(upload) ==
    LET f == upload.file
    IN IF upload.poison = "pre"
       THEN [local_data |-> local_data, collection |-> collection,
             model |-> model, failed |-> TRUE, raised |-> FALSE,
             called |-> FALSE]
       ELSE LET r == StoreScreenshot(f.filename, f.image_data, f.ocr_text,
                                     f.visual_description, CombinedText(f),
                                     upload.poison)
            IN [local_data |-> r.local_data, collection |-> r.collection,
                model |-> r.model, failed |-> r.failed, raised |-> r.raised,
                called |-> TRUE]

\* the loop abandons the remaining files once one has failed
AfterFileAbort(r, i) == IF r.failed THEN nfiles ELSE i + 1

\* where the for loop goes after a pass: on to the next file, whatever
\* happened to this one
AfterFile(r, i) == i + 1

\* process_screenshots is called with n uploaded files
BatchStart(n) ==
    /\ phase = "ready"
    /\ pcBatch = "idle"
    /\ ret = NoRet
    /\ Len(Store) + n <= MaxStore
    /\ pcBatch' = "loop"
    /\ nfiles' = n
    /\ batch' = <<>>
    /\ bi' = 0
    /\ batchBase' = Store
    /\ UNCHANGED <<phase, conn, use_local_storage, local_data, collection,
                   model, ret, returned, succeeded, pc, loadCount, sim,
                   srch, ing>>

\* the loop takes the next uploaded file
BatchStep(upload) ==
    /\ pcBatch = "loop"
    /\ bi < nfiles
    /\ upload.poison = "store" => use_local_storage = "False"
    /\ LET r == ProcessFile(upload)
       IN /\ local_data' = r.local_data
          /\ collection' = r.collection
          /\ model' = r.model
          /\ bi' = AfterFile(r, bi)
          /\ returned' = IF r.called /\ ~r.raised
                         THEN returned \cup {upload.file} ELSE returned
          /\ succeeded' = IF ~r.failed
                          THEN Append(succeeded, upload.file) ELSE succeeded
    /\ batch' = Append(batch, upload)
    /\ UNCHANGED <<phase, conn, use_local_storage, ret, pcBatch, nfiles,
                   batchBase, pc, loadCount, sim,
                   srch, ing>>

\* lines 305-306: the loop is over
BatchEnd ==
    /\ pcBatch = "loop"
    /\ bi = nfiles
    /\ pcBatch' = "done"
    /\ UNCHANGED <<phase, conn, use_local_storage, local_data, collection,
                   model, ret, nfiles, batch, bi, batchBase, returned,
                   succeeded, pc, loadCount, sim,
                   srch, ing>>

\* process_screenshots returns; its locals are gone
BatchReturn ==
    /\ pcBatch = "done"
    /\ pcBatch' = "idle"
    /\ nfiles' = 0
    /\ batch' = <<>>
    /\ bi' = 0
    /\ batchBase' = <<>>
    /\ UNCHANGED <<phase, conn, use_local_storage, local_data, collection,
                   model, ret, returned, succeeded, pc, loadCount, sim,
                   srch, ing>>

\* ---------------------------------------------------------------- search
\* list(self.collection.find({}, {'_id': 0}))
FindAll(coll) == [i \in 1..Len(coll) |-> [coll[i] EXCEPT !._id = 0]]

\* _search_local (lines 101-121)
SearchLocal(query_embedding, top_indices) ==
    IF local_data = <<>> THEN [top_indices |-> <<>>, results |-> <<>>]
    ELSE RankDocuments(local_data, query_embedding, top_indices)

\* _search_mongodb (lines 123-154); poison = "read" makes find raise
SearchMongodb(query_embedding, poison, top_indices) ==
    IF poison = "read" THEN [top_indices |-> <<>>, results |-> <<>>]
    ELSE LET documents == FindAll(collection)
         IN IF documents = <<>> THEN [top_indices |-> <<>>, results |-> <<>>]
            ELSE RankDocuments(documents, query_embedding, top_indices)

\* search without its try / except: a failing embedding reaches the caller
SearchCallNoExcept(query, top_k, poison, top_indices) ==
    LET e == EncodeQuery(query, poison, model)
    IN [NoRet EXCEPT !.op = "search", !.query = query, !.top_k = top_k,
                     !.poison = poison, !.raised = e.exc]

\* search (lines 86-99): what the caller gets, top_indices being what line
\* 111 / 140 computes
SearchCall(query, top_k, poison, top_indices) ==
    LET e == EncodeQuery(query, poison, model)
        r == IF use_local_storage = "True"
             THEN SearchLocal(e.val, top_indices)
             ELSE SearchMongodb(e.val, poison, top_indices)
    IN IF e.exc
       THEN [NoRet EXCEPT !.op = "search", !.query = query, !.top_k = top_k,
                          !.poison = poison]
       ELSE [NoRet EXCEPT !.op = "search", !.query = query, !.top_k = top_k,
                          !.poison = poison, !.top_indices = r.top_indices,
                          !.results = r.results]

\* the values line 111 / 140 can give top_indices in a search: one for each
\* outcome of np.argsort on the scores of the documents the search ranks, and
\* the empty one where the search ranks nothing
TopIndicesOutcomes(query, top_k, poison) ==
    IF poison = "embed" \/ Store = <<>>
       \/ (poison = "read" /\ use_local_storage = "False")
    THEN {<<>>}
    ELSE {TopIndices(perm, top_k) :
             perm \in Argsort(Similarities(Store, ModelEncode(query)))}

Search(query, top_k, poison) ==
    /\ phase = "ready"
    /\ pcBatch = "idle"
    /\ ret = NoRet
    /\ poison = "read" => use_local_storage = "False"
    /\ \E top_indices \in TopIndicesOutcomes(query, top_k, poison) :
          ret' = SearchCall(query, top_k, poison, top_indices)
    /\ model' = EncodeQuery(query, poison, model).model
    /\ UNCHANGED <<phase, conn, use_local_storage, local_data, collection,
                   pcBatch, nfiles, batch, bi, batchBase, returned, succeeded, pc,
                   loadCount, sim,
                   srch, ing>>

\* ----------------------------------------------------------------- count
\* the in-process list counted in both modes
GetTotalScreenshotsLocal(unreachable) == Len(local_data)

\* get_total_screenshots (lines 156-164); unreachable makes count_documents
\* raise
GetTotalScreenshots(unreachable) ==
    IF use_local_storage = "True" THEN Len(local_data)
    ELSE IF unreachable THEN 0
    ELSE Len(collection)

Count(unreachable) ==
    /\ phase = "ready"
    /\ pcBatch = "idle"
    /\ ret = NoRet
    /\ unreachable => use_local_storage = "False"
    /\ ret' = [NoRet EXCEPT !.op = "count",
                            !.poison = IF unreachable THEN "count" ELSE "none",
                            !.value = GetTotalScreenshots(unreachable)]
    /\ UNCHANGED <<phase, conn, use_local_storage, local_data, collection,
                   model, pcBatch, nfiles, batch, bi, batchBase, returned, succeeded,
                   pc, loadCount, sim,
                   srch, ing>>

\* ------------------------------------------------------------- dimension
\* line 71: the dimension returned while no model is loaded
DefaultDimension == 384

\* get_embedding_dimension (lines 68-75): without a model the default, and
\* no call of encode_text; with a model the width of encode_text("test"),
\* whose exception is not caught.  embed_calls counts its calls of
\* encode_text.
GetEmbeddingDimension(poison) ==
    IF model = "None"
    THEN [value |-> DefaultDimension, embed_calls |-> 0, raised |-> FALSE,
          model |-> model]
    ELSE LET e == EncodeText(<<"test">>, poison, model)
         IN [value |-> IF e.exc THEN 0 ELSE Len(e.val[1]), embed_calls |-> 1,
             raised |-> e.exc, model |-> e.model]

Dimension(poison) ==
    /\ phase = "ready"
    /\ pcBatch = "idle"
    /\ ret = NoRet
    /\ poison = "embed" => model = "loaded"
    /\ LET r == GetEmbeddingDimension(poison)
       IN /\ ret' = [NoRet EXCEPT !.op = "dimension", !.poison = poison,
                                  !.value = r.value, !.raised = r.raised,
                                  !.embed_calls = r.embed_calls]
          /\ model' = r.model
    /\ UNCHANGED <<phase, conn, use_local_storage, local_data, collection,
                   pcBatch, nfiles, batch, bi, batchBase, returned, succeeded,
                   pc, loadCount, sim,
                   srch, ing>>

\* the caller (search_results, the sidebar counter) is done with what the
\* last call returned
CallerDone ==
    /\ ret # NoRet
    /\ ret' = NoRet
    /\ UNCHANGED <<phase, conn, use_local_storage, local_data, collection,
                   model, pcBatch, nfiles, batch, bi, batchBase, returned,
                   succeeded, pc, loadCount, sim,
                   srch, ing>>

\* ------------------------------------------------------ the specification
Init ==
    /\ phase = "new"
    /\ conn = "none"
    /\ use_local_storage = "unset"
    /\ local_data = <<>>
    /\ collection = <<>>
    /\ model = "None"
    /\ ret = NoRet
    /\ pcBatch = "idle"
    /\ nfiles = 0
    /\ batch = <<>>
    /\ bi = 0
    /\ batchBase = <<>>
    /\ returned = {}
    /\ succeeded = <<>>
    /\ pc = [c \in 1..NumCallers |-> "idle"]
    /\ loadCount = 0
    /\ sim = [state |-> "unused"]
    /\ srch = [pc |-> "unused"]
    /\ ing = <<>>

Next ==
    \/ \E outcome \in ConnOutcomes : Construct(outcome)
    \/ \E n \in 1..MaxBatch : BatchStart(n)
    \/ \E upload \in Uploads : BatchStep(upload)
    \/ BatchEnd
    \/ BatchReturn
    \/ \E query \in Queries, top_k \in 1..MaxTopK, poison \in SearchPoisons :
          Search(query, top_k, poison)
    \/ \E unreachable \in BOOLEAN : Count(unreachable)
    \/ \E poison \in {"none", "embed"} : Dimension(poison)
    \/ CallerDone

Spec == Init /\ [][Next]_vars

\* ------------------------------------ concurrent callers of encode_text
\* Several threads call encode_text on one EmbeddingService.  A thread is at
\* "idle" (not in a call), "l27" (about to test self.model in encode_text),
\* "l14" (about to test it again in _load_model), "l19" (about to construct
\* the SentenceTransformer and assign it), "l36" (about to encode), "done"
\* (the call returned) or "raised" (the call raised).  There is no lock
\* anywhere in the class.
Callers == 1..NumCallers

CallEncodeText(c) ==
    /\ pc[c] = "idle"
    /\ pc' = [pc EXCEPT ![c] = "l27"]
    /\ UNCHANGED <<serviceVars, loadCount, sim,
                   srch, ing>>

\* line 27: if not self.model
TestModel(c) ==
    /\ pc[c] = "l27"
    /\ pc' = [pc EXCEPT ![c] = IF model = "None" THEN "l14" ELSE "l36"]
    /\ UNCHANGED <<serviceVars, loadCount, sim,
                   srch, ing>>

\* line 14: if self.model is not None: return
TestModelAgain(c) ==
    /\ pc[c] = "l14"
    /\ pc' = [pc EXCEPT ![c] = IF model # "None" THEN "l36" ELSE "l19"]
    /\ UNCHANGED <<serviceVars, loadCount, sim,
                   srch, ing>>

\* line 19: self.model = SentenceTransformer(self.model_name), or it raises
\* and line 23 raises again
LoadModel(c, ok) ==
    /\ pc[c] = "l19"
    /\ pc' = [pc EXCEPT ![c] = IF ok THEN "l36" ELSE "raised"]
    /\ model' = IF ok THEN "loaded" ELSE model
    /\ loadCount' = IF ok THEN loadCount + 1 ELSE loadCount
    /\ UNCHANGED <<phase, conn, use_local_storage, local_data, collection,
                   ret, pcBatch, nfiles, batch, bi, batchBase, returned,
                   succeeded, sim,
                   srch, ing>>

\* line 36: self.model.encode(...), or it raises and line 42 raises again
Encode(c, ok) ==
    /\ pc[c] = "l36"
    /\ pc' = [pc EXCEPT ![c] = IF ok THEN "done" ELSE "raised"]
    /\ UNCHANGED <<serviceVars, loadCount, sim,
                   srch, ing>>

\* the caller has its answer and may call again
CallOver(c) ==
    /\ pc[c] \in {"done", "raised"}
    /\ pc' = [pc EXCEPT ![c] = "idle"]
    /\ UNCHANGED <<serviceVars, loadCount, sim,
                   srch, ing>>

NextLoad ==
    \E c \in Callers :
        \/ CallEncodeText(c)
        \/ TestModel(c)
        \/ TestModelAgain(c)
        \/ \E ok \in BOOLEAN : LoadModel(c, ok)
        \/ \E ok \in BOOLEAN : Encode(c, ok)
        \/ CallOver(c)

SpecLoad == Init /\ [][NextLoad]_vars

\* ------------------------------- calculate_similarity on arbitrary input
SimCoords == {-1, 0, 1}

SimDims == {1, 2}

SimVectors == UNION {[1..d -> SimCoords] : d \in SimDims}

\* the 2-D arrays of up to MaxDocs rows, and the array without rows
SimMatrices ==
    {<<>>} \cup UNION {[1..n -> [1..d -> SimCoords]] : n \in 1..MaxDocs, d \in SimDims}

InitSim ==
    /\ phase = "new"
    /\ conn = "none"
    /\ use_local_storage = "unset"
    /\ local_data = <<>>
    /\ collection = <<>>
    /\ model = "None"
    /\ ret = NoRet
    /\ pcBatch = "idle"
    /\ nfiles = 0
    /\ batch = <<>>
    /\ bi = 0
    /\ batchBase = <<>>
    /\ returned = {}
    /\ succeeded = <<>>
    /\ pc = [c \in Callers |-> "idle"]
    /\ loadCount = 0
    /\ srch = [pc |-> "unused"]
    /\ ing = <<>>
    /\ \E q \in SimVectors, docs \in SimMatrices :
          sim = [state |-> "input", query_embedding |-> q,
                 document_embeddings |-> docs, similarities |-> <<>>,
                 top_k |-> 0, top_indices |-> <<>>, scores |-> <<>>]

\* similarities = calculate_similarity(query_embedding, document_embeddings)
Score ==
    /\ sim.state = "input"
    /\ sim' = [sim EXCEPT !.state = "scored",
                          !.similarities =
                              CalculateSimilarity(sim.query_embedding,
                                                  sim.document_embeddings)]
    /\ UNCHANGED <<serviceVars, pc, loadCount,
                   srch, ing>>

\* lines 111-116: the indices search picks and the scores it reports
Rank(top_k) ==
    /\ sim.state = "scored"
    /\ \E perm \in Argsort(sim.similarities) :
          LET top_indices == TopIndices(perm, top_k)
          IN sim' = [sim EXCEPT !.state = "ranked", !.top_k = top_k,
                                !.top_indices = top_indices,
                                !.scores = [i \in 1..Len(top_indices) |->
                                               sim.similarities[top_indices[i]]]]
    /\ UNCHANGED <<serviceVars, pc, loadCount,
                   srch, ing>>

NextSim ==
    \/ Score
    \/ \E top_k \in 1..MaxTopK : Rank(top_k)

SpecSim == InitSim /\ [][NextSim]_vars

\* --------------------- a search on the in-process list while ingests run
\* One thread runs search / _search_local and other threads run
\* store_screenshot on the same SearchService in fallback mode, with no lock.
\* The searching thread is at "idle", "l103" (about to test the list), "l107"
\* (in the list comprehension, which reads self.local_data element by
\* element until it meets its current end), "l108", "l111", "l114" (in the
\* result loop, one pass per index) or "done".  An ingesting thread is at
\* "idle" or at "l74", holding the complete document of lines 65-72.
Ingesters == 1..NumIngesters

SrchIdle ==
    [pc |-> "idle", query_embedding |-> <<>>, top_k |-> 0, i |-> 0,
     document_embeddings |-> <<>>, similarities |-> <<>>,
     top_indices |-> <<>>, results |-> <<>>, raised |-> FALSE]

IngIdle == [pc |-> "idle", document |-> <<>>]

InFlight == Cardinality({t \in Ingesters : ing[t].pc = "l74"})

concOther == <<phase, conn, use_local_storage, collection, ret, pcBatch,
               nfiles, batch, bi, batchBase, returned, succeeded, pc,
               loadCount, sim>>

InitConc ==
    /\ phase = "ready"
    /\ conn = "no_uri"
    /\ use_local_storage = "True"
    /\ local_data = <<>>
    /\ collection = <<>>
    /\ model = "None"
    /\ ret = NoRet
    /\ pcBatch = "idle"
    /\ nfiles = 0
    /\ batch = <<>>
    /\ bi = 0
    /\ batchBase = <<>>
    /\ returned = {}
    /\ succeeded = <<>>
    /\ pc = [c \in Callers |-> "idle"]
    /\ loadCount = 0
    /\ sim = [state |-> "unused"]
    /\ srch = SrchIdle
    /\ ing = [t \in Ingesters |-> IngIdle]

\* store_screenshot, lines 63-72: the embedding and the document
IngestBuild(t, file) ==
    /\ ing[t].pc = "idle"
    /\ Len(local_data) + InFlight < MaxStore
    /\ LET e == EncodeText(CombinedText(file), "none", model)
       IN /\ ing' = [ing EXCEPT ![t] =
                        [pc |-> "l74",
                         document |-> Document(file.filename, file.image_data,
                                               file.ocr_text,
                                               file.visual_description,
                                               CombinedText(file), e.val[1])]]
          /\ model' = e.model
    /\ UNCHANGED <<concOther, local_data, srch>>

\* line 76: self.local_data.append(document)
IngestAppend(t) ==
    /\ ing[t].pc = "l74"
    /\ local_data' = LocalAppend(local_data, ing[t].document)
    /\ ing' = [ing EXCEPT ![t] = IngIdle]
    /\ UNCHANGED <<concOther, model, srch>>

\* search, lines 90-93: the query is embedded and _search_local called
SearchBegin(query, top_k) ==
    /\ srch.pc = "idle"
    /\ LET e == EncodeQuery(query, "none", model)
       IN /\ srch' = [SrchIdle EXCEPT !.pc = "l103", !.query_embedding = e.val,
                                      !.top_k = top_k]
          /\ model' = e.model
    /\ UNCHANGED <<concOther, local_data, ing>>

\* line 103: if not self.local_data: return []
TestEmpty ==
    /\ srch.pc = "l103"
    /\ srch' = [srch EXCEPT !.pc = IF local_data = <<>> THEN "done" ELSE "l107"]
    /\ UNCHANGED <<concOther, local_data, model, ing>>

\* line 107: one step of the iteration over self.local_data
ReadEmbedding ==
    /\ srch.pc = "l107"
    /\ srch' = IF srch.i < Len(local_data)
               THEN [srch EXCEPT !.i = srch.i + 1,
                                 !.document_embeddings =
                                     Append(srch.document_embeddings,
                                            local_data[srch.i + 1].embedding)]
               ELSE [srch EXCEPT !.pc = "l108"]
    /\ UNCHANGED <<concOther, local_data, model, ing>>

\* line 108
ComputeSimilarities ==
    /\ srch.pc = "l108"
    /\ srch' = [srch EXCEPT !.pc = "l111",
                            !.similarities =
                                CalculateSimilarity(srch.query_embedding,
                                                    srch.document_embeddings)]
    /\ UNCHANGED <<concOther, local_data, model, ing>>

\* line 111
ChooseTop ==
    /\ srch.pc = "l111"
    /\ \E perm \in Argsort(srch.similarities) :
          srch' = [srch EXCEPT !.pc = "l114", !.i = 0,
                               !.top_indices = TopIndices(perm, srch.top_k)]
    /\ UNCHANGED <<concOther, local_data, model, ing>>

\* lines 114-119: one pass of the result loop; an index past the end of the
\* list raises IndexError, which ends the search (line 97)
BuildResult ==
    /\ srch.pc = "l114"
    /\ srch' = IF srch.i = Len(srch.top_indices)
               THEN [srch EXCEPT !.pc = "done"]
               ELSE LET idx == srch.top_indices[srch.i + 1]
                    IN IF idx > Len(local_data)
                       THEN [srch EXCEPT !.pc = "done", !.raised = TRUE,
                                         !.results = <<>>]
                       ELSE [srch EXCEPT !.i = srch.i + 1,
                                         !.results =
                                             Append(srch.results,
                                                    ResultOf(local_data[idx],
                                                             srch.similarities[idx]))]
    /\ UNCHANGED <<concOther, local_data, model, ing>>

\* search returns; the thread may search again
SearchReturn ==
    /\ srch.pc = "done"
    /\ srch' = SrchIdle
    /\ UNCHANGED <<concOther, local_data, model, ing>>

NextConc ==
    \/ \E t \in Ingesters, file \in Files : IngestBuild(t, file)
    \/ \E t \in Ingesters : IngestAppend(t)
    \/ \E query \in Queries, top_k \in 1..MaxTopK : SearchBegin(query, top_k)
    \/ TestEmpty
    \/ ReadEmbedding
    \/ ComputeSimilarities
    \/ ChooseTop
    \/ BuildResult
    \/ SearchReturn

SpecConc == InitConc /\ [][NextConc]_vars

\* ================================================================ claims
\* the fields search returns for a stored file
Matches(result, file) ==
    /\ result.filename = file.filename
    /\ result.ocr_text = file.ocr_text
    /\ result.visual_description = file.visual_description
    /\ result.combined_text = CombinedText(file)

\* the document store_screenshot builds for a file (without the driver's _id)
ExpectedDocument(file) ==
    Document(file.filename, file.image_data, file.ocr_text,
             file.visual_description, CombinedText(file),
             ModelEncode(CombinedText(file)))

RECURSIVE ExpectedDocuments(_)
ExpectedDocuments(uploads) ==
    IF uploads = <<>> THEN <<>>
    ELSE IF Head(uploads).poison = "none"
    THEN <<ExpectedDocument(Head(uploads).file)>> \o ExpectedDocuments(Tail(uploads))
    ELSE ExpectedDocuments(Tail(uploads))

\* C1 (as claimed): the results of a search are in non-increasing order of
\* score, and of two results with equal score the one fetched first from the
\* store comes first.
C1_SortedWithStableTies ==
    ret.op = "search" =>
        \A i, j \in DOMAIN ret.results :
            i < j =>
                /\ ~ScoreLT(ret.results[i].score, ret.results[j].score)
                /\ ret.results[i].score = ret.results[j].score
                       => ret.top_indices[i] < ret.top_indices[j]

\* C2 (as claimed): after construction, use_local_storage is true when
\* MONGODB_URI is absent or the backend could not be reached, and false only
\* when the backend was reached.
C2_FallbackObservable ==
    phase = "ready" =>
        /\ conn # "connected" => use_local_storage = "True"
        /\ use_local_storage = "False" => conn = "connected"

\* C3: while and after a batch runs, the store holds what it held before the
\* batch followed by exactly the files of the batch whose ingest did not fail,
\* in batch order; a failing file does not stop the loop, which goes through
\* every uploaded file before it ends.
C3_BatchIsolatesFailures ==
    pcBatch \in {"loop", "done"} =>
        /\ FindAll(Store) = FindAll(batchBase) \o ExpectedDocuments(batch)
        /\ bi = Len(batch)
        /\ pcBatch = "done" => bi = nfiles

\* a batch of three whose second file failed in the store has ended with the
\* first and the third file stored
C3_Witness ==
    /\ pcBatch = "done"
    /\ nfiles = 3
    /\ Len(batch) = 3
    /\ batch[1].poison = "none"
    /\ batch[2].poison = "store"
    /\ batch[3].poison = "none"
    /\ Len(Store) = Len(batchBase) + 2

\* C5: a search that ranks the store (its query was embedded and the store
\* was read) returns min(top_k, n) results for a store of n records, each
\* for a different stored record; so all n records when top_k >= n, and
\* nothing for an empty store.
C5_ResultCount ==
    (ret.op = "search" /\ ret.poison = "none") =>
        /\ Len(ret.results) = Min(ret.top_k, Len(Store))
        /\ Len(ret.top_indices) = Len(ret.results)
        /\ \A i \in DOMAIN ret.top_indices : ret.top_indices[i] \in 1..Len(Store)
        /\ \A i, j \in DOMAIN ret.top_indices :
               i # j => ret.top_indices[i] # ret.top_indices[j]

\* a search with top_k above the size of a store of several records
C5_Witness ==
    /\ ret.op = "search"
    /\ ret.poison = "none"
    /\ Len(Store) >= 2
    /\ ret.top_k > Len(Store)
    /\ Len(ret.results) = Len(Store)

\* C6 (as claimed): get_total_screenshots returns the number of ingests that
\* completed without failure, whatever happened before.
C6_CountIsSuccessfulIngests ==
    ret.op = "count" => ret.value = Len(succeeded)

\* C6 (amended): get_total_screenshots returns the number of ingests that
\* completed without failure (0 for a fresh store) unless the store is the
\* durable one and counting its documents fails, and then it returns 0.
C6_CountOrZero ==
    ret.op = "count" =>
        ret.value = IF ret.poison = "count" THEN 0 ELSE Len(succeeded)

\* a count of two after two ingests succeeded and another one failed
C6_Witness ==
    /\ ret.op = "count"
    /\ ret.poison = "none"
    /\ ret.value = 2
    /\ Len(succeeded) = 2
    /\ \E f \in returned : \A k \in DOMAIN succeeded : succeeded[k] # f

\* C7: search never lets an error reach its caller; when the embedding of
\* the query or the read of the store fails it returns no results; and it
\* leaves the store as it was.
C7_SearchFailsSoft ==
    [][(ret = NoRet /\ ret'.op = "search") =>
          /\ ~ret'.raised
          /\ ret'.poison # "none" => ret'.results = <<>>
          /\ local_data' = local_data
          /\ collection' = collection]_vars

\* a search whose embedding or read failed over a store that holds records
C7_Witness ==
    /\ ret.op = "search"
    /\ ret.poison \in {"embed", "read"}
    /\ Store # <<>>
    /\ ret.results = <<>>
    /\ ~ret.raised

\* C9 (as claimed): once store_screenshot has returned for a file, a search
\* with top_k at least the number of stored records returns a result with
\* the file's filename, ocr_text, visual_description and combined_text.
C9_RoundTripAfterReturn ==
    (ret.op = "search" /\ ret.top_k >= Len(Store)) =>
        \A f \in returned : \E i \in DOMAIN ret.results : Matches(ret.results[i], f)

\* C9 (amended): once store_screenshot has completed without failure for a
\* file, a search that does not fail, with top_k at least the number of
\* stored records, returns a result with the file's filename, ocr_text,
\* visual_description and combined_text.
C9_RoundTripAfterSuccess ==
    (ret.op = "search" /\ ret.poison = "none" /\ ret.top_k >= Len(Store)) =>
        \A k \in DOMAIN succeeded :
            \E i \in DOMAIN ret.results : Matches(ret.results[i], succeeded[k])

\* a search returning both of two different files ingested before
C9_Witness ==
    /\ ret.op = "search"
    /\ ret.poison = "none"
    /\ ret.top_k >= Len(Store)
    /\ Len(succeeded) >= 2
    /\ succeeded[1] # succeeded[2]
    /\ \A k \in DOMAIN succeeded :
           \E i \in DOMAIN ret.results : Matches(ret.results[i], succeeded[k])

\* C10: no step removes or changes a stored record: each store only grows
\* at its end, every record keeping its position and all its fields, the
\* vector included.
C10_AppendOnly ==
    [][IsPrefix(local_data, local_data') /\ IsPrefix(collection, collection')]_vars

\* a search has returned records of a store of several records, which still
\* holds every ingested record with its vector
C10_Witness ==
    /\ ret.op = "search"
    /\ ret.results # <<>>
    /\ Len(Store) >= 2
    /\ FindAll(Store) = [k \in DOMAIN succeeded |-> ExpectedDocument(succeeded[k])]

\* C4 (as claimed): however the callers of encode_text interleave, the model
\* is constructed at most once.
C4_LoadedOnce == loadCount <= 1

\* the input of calculate_similarity is degenerate: a zero-norm query, a
\* zero-norm document, or a dimension mismatch
Degenerate ==
    \/ Norm2(sim.query_embedding) = 0
    \/ \E i \in DOMAIN sim.document_embeddings :
           \/ Norm2(sim.document_embeddings[i]) = 0
           \/ Len(sim.document_embeddings[i]) # Len(sim.query_embedding)

\* C8 (as claimed): on a degenerate input calculate_similarity returns no
\* score or only zero scores, none of them NaN, and the ranking built on it
\* returns nothing.
C8_FailsClosed ==
    (sim.state \in {"scored", "ranked"} /\ Degenerate) =>
        /\ \A i \in DOMAIN sim.similarities :
               ~sim.similarities[i].nan /\ sim.similarities[i].sgn = 0
        /\ sim.state = "ranked" => sim.top_indices = <<>>

\* C11: whatever the connection attempt meets, the constructor ends in the
\* ready state with use_local_storage set to True (fallback) or False
\* (durable); a constructed service stays ready, and no later ingest, search
\* or count changes its mode.
C11_AlwaysReadyOneMode ==
    [][/\ (phase = "new" /\ phase' = "ready") =>
              /\ conn' \in ConnOutcomes
              /\ use_local_storage' \in {"True", "False"}
       /\ phase = "ready" =>
              /\ phase' = "ready"
              /\ use_local_storage' = use_local_storage]_vars

\* a service whose MongoClient raised is ready in fallback mode and has
\* stored a record and answered a search since
C11_Witness ==
    /\ phase = "ready"
    /\ conn = "client_raises"
    /\ use_local_storage = "True"
    /\ Len(local_data) >= 1
    /\ ret.op = "search"

\* C12 (as claimed): every stored record has an id, assigned when it was
\* inserted, that no other record of the store has; in both modes.
C12_UniqueIds ==
    /\ \A i \in DOMAIN Store : Store[i]._id # 0
    /\ \A i, j \in DOMAIN Store : i # j => Store[i]._id # Store[j]._id

\* C13 (as claimed): get_embedding_dimension makes no embedding call when
\* the model is loaded and exactly one, which loads the model, when it is
\* not; when it returns, the model is loaded and the value is the width of
\* the vectors the model gives.
C13_DimensionProbe ==
    [][(ret = NoRet /\ ret'.op = "dimension") =>
          /\ ret'.embed_calls = IF model = "loaded" THEN 0 ELSE 1
          /\ ~ret'.raised =>
                 /\ model' = "loaded"
                 /\ ret'.value = Len(ModelEncode(<<"test">>))]_vars

\* C14: while a search on the in-process list runs together with ingests, in
\* every interleaving the search raises no IndexError, every vector it has
\* read is the complete vector of the record at that position, and every
\* result it has built is the record at an index inside the list with the
\* score computed for that same record.
C14_ConsistentSearch ==
    /\ ~srch.raised
    /\ \A j \in DOMAIN srch.document_embeddings :
           /\ j <= Len(local_data)
           /\ srch.document_embeddings[j] = local_data[j].embedding
           /\ Len(srch.document_embeddings[j]) = Len(srch.query_embedding)
    /\ \A k \in DOMAIN srch.results :
           LET idx == srch.top_indices[k]
           IN /\ idx \in 1..Len(local_data)
              /\ srch.results[k] =
                     ResultOf(local_data[idx],
                              Cosine(srch.query_embedding,
                                     local_data[idx].embedding))

\* a search that returned two results although the list grew by an append
\* after the search had read it
C14_Witness ==
    /\ srch.pc = "done"
    /\ Len(srch.results) >= 2
    /\ Len(local_data) > Len(srch.document_embeddings)
====
